---- MODULE Spec2Model ----
(***************************************************************************)
(* Model of src/python-worker/worker.py: the pre-send hook before_send,    *)
(* the per-message handler process_message and the worker loop main.       *)
(*                                                                         *)
(* Python values are encoded as follows.  A str is a sequence of           *)
(* one-character strings ("T-P" is <<"T","-","P">>).  None is the          *)
(* one-element sequence None below, which no str equals because its only   *)
(* element is longer than one character.  A dict is a function from its    *)
(* keys to values; the values of an event are kept as the text of their    *)
(* Python literal ("True", "False", "1", "None").                          *)
(***************************************************************************)
EXTENDS Naturals, Integers, Sequences, FiniteSets, TLC

VARIABLES
    pc,          \* position of the single thread of control (see the actions)
    outcome,     \* what the poll of the current iteration produced
    messages,    \* the list iterated by `for message in messages`
    idx,         \* number of items the for loop has taken from messages
    parsed,      \* trace_id / parent_span_id / trace_sampled of lines 87-98
    rootState,   \* the transaction of line 113: none, started, open, closed
    rootStatus,  \* its status
    rootTags,    \* its tags
    childState,  \* the gpu.inference span of line 129: none, open, closed
    flushAt,     \* rootState at the moment sentry_sdk.flush was called
    result,      \* value returned by the latest process_message call
    dispatched,  \* indices passed to process_message this iteration
    faulted,     \* indices whose process_message raised an Exception
    captured,    \* indices for which capture_exception was called
    interrupted, \* a KeyboardInterrupt has been delivered
    stoppedAt,   \* pc at which it was delivered
    lastWait,    \* seconds slept by the latest time.sleep of line 209
    event,       \* before_send: the event handed in
    sent,        \* before_send: the event returned
    header,      \* trace parsing: the sentryTrace string
    ctx,         \* trace parsing: the parsed triple
    calls,       \* the arguments of the process_message calls of this iteration
    returned,    \* indices whose result came back to the loop and was printed
    pollsSinceWait, \* requests.post calls since the latest time.sleep of line 209
    envelope,    \* what continue_trace returned (line 108)
    rootTrace,   \* trace_id / parent_span_id of the transaction of line 113
    childTrace,  \* trace_id of the gpu.inference span of line 129
    flushed      \* what sentry_sdk.flush returned (line 148)

loopVars == <<pc, outcome, messages, idx, lastWait>>
spanVars == <<parsed, rootState, rootStatus, rootTags, childState, flushAt>>
histVars == <<result, dispatched, faulted, captured, interrupted, stoppedAt>>
pureVars == <<event, sent, header, ctx>>
logVars == <<calls, returned, pollsSinceWait>>
sdkVars == <<envelope, rootTrace, childTrace, flushed>>
vars == <<loopVars, spanVars, histVars, pureVars, logVars, sdkVars>>

\* ------------------------------------------------------------------ bounds

MaxBatch == 2
MaxTraceLen == 5

\* --------------------------------------------------------------- constants

PollInterval == 1

\* ------------------------------------------------------------ Python values

None == <<"<None>">>
Absent == "<absent>"

Chars == {"T", "P", "1", "0", "-"}

Str(n) == UNION {[1..k -> Chars] : k \in 0..n}

\* ----------------------------------------------------------------- split

FirstDash(s) == CHOOSE i \in 1..Len(s) : s[i] = "-" /\ \A j \in 1..(i-1) : s[j] # "-"

RECURSIVE Split(_)
Split(s) ==
    IF \A i \in 1..Len(s) : s[i] # "-"
    THEN <<s>>
    ELSE <<SubSeq(s, 1, FirstDash(s) - 1)>>
             \o Split(SubSeq(s, FirstDash(s) + 1, Len(s)))

\* variant: any flag other than '0' counts as sampled
ParseTraceFlagNotZero(sentry_trace) ==
    LET trace_parts == Split(sentry_trace)
        trace_sampled_flag == IF Len(trace_parts) > 2 THEN trace_parts[3] ELSE None
    IN [trace_id |-> IF Len(trace_parts) > 0 THEN trace_parts[1] ELSE None,
        parent_span_id |-> IF Len(trace_parts) > 1 THEN trace_parts[2] ELSE None,
        trace_sampled |-> (trace_sampled_flag # None /\ trace_sampled_flag # <<"0">>)]

\* lines 87-98
ParseTrace(sentry_trace) ==
    LET trace_parts == Split(sentry_trace)
        trace_sampled_flag == IF Len(trace_parts) > 2 THEN trace_parts[3] ELSE None
    IN [trace_id |-> IF Len(trace_parts) > 0 THEN trace_parts[1] ELSE None,
        parent_span_id |-> IF Len(trace_parts) > 1 THEN trace_parts[2] ELSE None,
        trace_sampled |-> (trace_sampled_flag = <<"1">>)]

NoCtx == [trace_id |-> None, parent_span_id |-> None, trace_sampled |-> FALSE]

\* ------------------------------------------------------------ before_send

EventKeys == {"type", "transaction", "spans", "sampled", "message"}

EventValues(k) ==
    CASE k = "type" -> {"transaction", "error"}
      [] k = "transaction" -> {"queue.process"}
      [] k = "spans" -> {"[]"}
      [] k = "sampled" -> {"True", "False", "1", "None"}
      [] k = "message" -> {"boom"}

Events == UNION {{e \in [D -> UNION {EventValues(k) : k \in EventKeys}] :
                      \A k \in D : e[k] \in EventValues(k)} : D \in SUBSET EventKeys}

Get(d, k) == IF k \in DOMAIN d THEN d[k] ELSE "None"

\* variant: every event is treated as a transaction
TraceBearingAlways(e) == TRUE

\* line 27
TraceBearing(e) ==
    Get(e, "type") = "transaction" \/ "transaction" \in DOMAIN e \/ "spans" \in DOMAIN e

\* variant: only a missing flag is forced
NeedsForceOnlyMissing(e) == "sampled" \notin DOMAIN e

\* line 33
NeedsForce(e) == "sampled" \notin DOMAIN e \/ Get(e, "sampled") # "True"

\* lines 20-41
before_send(e) ==
    IF TraceBearing(e)
    THEN IF NeedsForce(e)
         THEN [k \in DOMAIN e \cup {"sampled"} |-> IF k = "sampled" THEN "True" ELSE e[k]]
         ELSE e
    ELSE e

\* --------------------------------------------------------------- messages

\* The sentryTrace values a polled message may carry: missing (None), empty,
\* one segment, two segments, and the well-formed triples.
MsgTraces ==
    {None, <<>>, <<"T">>, <<"T", "-", "P">>,
     <<"T", "-", "P", "-", "1">>, <<"T", "-", "P", "-", "0">>}

\* A message is a JSON object (isDict) with optional sentryTrace and taskType,
\* or any other JSON value (a string, a number), on which .get is undefined.
Messages ==
    [isDict : {TRUE}, sentryTrace : MsgTraces, taskType : {Absent, "infer"}]
        \cup {[isDict |-> FALSE, sentryTrace |-> None, taskType |-> Absent]}

Batches == UNION {[1..n -> Messages] : n \in 0..MaxBatch}

\* the 200 response bodies: not JSON at all, a JSON value that is not an
\* object, an object without "messages", an object whose "messages" is null,
\* an object whose "messages" is a list
Bodies == {"not_json", "not_object", "no_messages", "messages_null", "list"}

NoResult == [success |-> FALSE, processedBy |-> Absent, warning |-> Absent, span |-> FALSE]
NoTags == [k \in {} |-> Absent]

message == messages[idx]

\* variant: `if sentry_trace is not None:`
HasTraceNotNone(m) == m.sentryTrace # None

\* variant: the traced branch is taken only for three or more segments
HasTraceWellFormed(m) ==
    /\ m.sentryTrace # None
    /\ m.sentryTrace # <<>>
    /\ Len(Split(m.sentryTrace)) > 2

\* line 78: `if sentry_trace:` (None and '' are falsy)
HasTrace(m) == m.sentryTrace # None /\ m.sentryTrace # <<>>

\* variant: spans opened without a with block
ExitWithLeak(s) == s

\* leaving a `with` block closes the span it entered (lines 115, 129)
ExitWith(s) == IF s = "open" THEN "closed" ELSE s

\* ------------------------------------------------- trace continuation

\* an id the SDK generates itself
Fresh == <<"<fresh>">>

NoTrace == [trace_id |-> None, parent_span_id |-> None]

\* line 80: the header is the message's sentryTrace, unchanged
Headers(m) == [k \in {"sentry-trace"} |-> m.sentryTrace]

\* line 108: the SDK takes the trace id and the parent span id from the
\* segments of the sentry-trace header; an id it does not find it leaves out
continue_trace(headers) ==
    LET segs == Split(headers["sentry-trace"])
    IN [trace_id |-> IF segs[1] # <<>> THEN segs[1] ELSE Fresh,
        parent_span_id |-> IF Len(segs) > 1 /\ segs[2] # <<>> THEN segs[2] ELSE None]

\* variant: start_transaction() called without the envelope
StartedTraceFresh(env) == [trace_id |-> Fresh, parent_span_id |-> None]

\* line 113: start_transaction(trace_envelope) starts the envelope itself
StartedTrace(env) == env

\* ------------------------------------------------------------------- Init

PureIdle ==
    /\ event = <<>>
    /\ sent = <<>>
    /\ header = <<>>
    /\ ctx = NoCtx

LoopStart ==
    /\ outcome = "none"
    /\ messages = <<>>
    /\ idx = 0
    /\ lastWait = 0
    /\ parsed = NoCtx
    /\ rootState = "none"
    /\ rootStatus = "unset"
    /\ rootTags = NoTags
    /\ childState = "none"
    /\ flushAt = "none"
    /\ result = NoResult
    /\ dispatched = {}
    /\ faulted = {}
    /\ captured = {}
    /\ interrupted = FALSE
    /\ stoppedAt = "none"
    /\ calls = <<>>
    /\ returned = {}
    /\ pollsSinceWait = 0
    /\ envelope = NoTrace
    /\ rootTrace = NoTrace
    /\ childTrace = None
    /\ flushed = "none"

Init ==
    /\ pc = "poll"
    /\ LoopStart
    /\ PureIdle

\* ------------------------------------------------------------- main: poll

NewIteration ==
    /\ idx' = 0
    /\ dispatched' = {}
    /\ faulted' = {}
    /\ captured' = {}
    /\ UNCHANGED <<lastWait, spanVars, result, interrupted, stoppedAt, pureVars>>
    /\ calls' = <<>>
    /\ returned' = {}
    /\ pollsSinceWait' = pollsSinceWait + 1
    /\ UNCHANGED sdkVars

\* variant: the request is retried at once after a transport fault
PollTransportFaultRetries ==
    /\ pc = "poll"
    /\ outcome' = "transport_fault"
    /\ messages' = <<>>
    /\ pc' = "poll"
    /\ NewIteration

\* lines 185-189 raise requests.exceptions.RequestException, caught at 205
PollTransportFault ==
    /\ pc = "poll"
    /\ outcome' = "transport_fault"
    /\ messages' = <<>>
    /\ pc' = "sleep"
    /\ NewIteration

\* lines 185-191, 202-203: a response arrived; its status is tested
PollResponse(status) ==
    /\ pc = "poll"
    /\ messages' = <<>>
    /\ IF status = 200
       THEN outcome' = "ok" /\ pc' = "decode"
       ELSE outcome' = "non200" /\ pc' = "sleep"
    /\ NewIteration

\* lines 192-195: response.json(), data.get("messages", []), iter(messages)
Decode ==
    /\ pc = "decode"
    /\ \E body \in Bodies :
         CASE body = "not_json" ->
              \* requests' JSONDecodeError is a RequestException: caught at 205
              outcome' = "bad_json" /\ messages' = <<>> /\ pc' = "sleep"
           [] body = "not_object" ->
              \* AttributeError from data.get: no handler in main matches
              outcome' = "crash" /\ messages' = <<>> /\ pc' = "crashed"
           [] body = "messages_null" ->
              \* TypeError from iterating None: no handler in main matches
              outcome' = "crash" /\ messages' = <<>> /\ pc' = "crashed"
           [] body = "no_messages" ->
              outcome' = "ok" /\ messages' = <<>> /\ pc' = "for_next"
           [] body = "list" ->
              outcome' = "ok" /\ messages' \in Batches /\ pc' = "for_next"
    /\ UNCHANGED <<idx, lastWait, spanVars, histVars, pureVars>>
    /\ UNCHANGED <<logVars, sdkVars>>

\* variant: messages.pop() takes the items from the end of the list
ForNextFromEnd ==
    /\ pc = "for_next"
    /\ IF idx < Len(messages)
       THEN /\ idx' = idx + 1
            /\ dispatched' = dispatched \cup {idx + 1}
            /\ pc' = "pm_entry"
            /\ parsed' = NoCtx
            /\ rootState' = "none"
            /\ rootStatus' = "unset"
            /\ rootTags' = NoTags
            /\ childState' = "none"
            /\ flushAt' = "none"
            /\ result' = NoResult
       ELSE /\ pc' = "sleep"
            /\ UNCHANGED <<idx, dispatched, spanVars, result>>
    /\ UNCHANGED <<outcome, messages, lastWait, faulted, captured,
                   interrupted, stoppedAt, pureVars>>
    /\ IF idx < Len(messages)
       THEN /\ calls' = Append(calls, messages[Len(messages) - idx])
            /\ envelope' = NoTrace
            /\ rootTrace' = NoTrace
            /\ childTrace' = None
            /\ flushed' = "none"
       ELSE UNCHANGED <<calls, sdkVars>>
    /\ UNCHANGED <<returned, pollsSinceWait>>

\* line 195: the for statement takes the next item, or the loop ends
ForNext ==
    /\ pc = "for_next"
    /\ IF idx < Len(messages)
       THEN /\ idx' = idx + 1
            /\ dispatched' = dispatched \cup {idx + 1}
            /\ pc' = "pm_entry"
            /\ parsed' = NoCtx
            /\ rootState' = "none"
            /\ rootStatus' = "unset"
            /\ rootTags' = NoTags
            /\ childState' = "none"
            /\ flushAt' = "none"
            /\ result' = NoResult
       ELSE /\ pc' = "sleep"
            /\ UNCHANGED <<idx, dispatched, spanVars, result>>
    /\ UNCHANGED <<outcome, messages, lastWait, faulted, captured,
                   interrupted, stoppedAt, pureVars>>
    /\ IF idx < Len(messages)
       THEN /\ calls' = Append(calls, messages[idx + 1])
            /\ envelope' = NoTrace
            /\ rootTrace' = NoTrace
            /\ childTrace' = None
            /\ flushed' = "none"
       ELSE UNCHANGED <<calls, sdkVars>>
    /\ UNCHANGED <<returned, pollsSinceWait>>

\* variant: a longer wait after a failed poll
SleepBackoff ==
    /\ pc = "sleep"
    /\ lastWait' = IF outcome \in {"transport_fault", "non200"}
                   THEN 5 * PollInterval ELSE PollInterval
    /\ pc' = "poll"
    /\ UNCHANGED <<outcome, messages, idx, spanVars, histVars, pureVars>>
    /\ pollsSinceWait' = 0
    /\ UNCHANGED <<calls, returned, sdkVars>>

\* line 209
Sleep ==
    /\ pc = "sleep"
    /\ lastWait' = PollInterval
    /\ pc' = "poll"
    /\ UNCHANGED <<outcome, messages, idx, spanVars, histVars, pureVars>>
    /\ pollsSinceWait' = 0
    /\ UNCHANGED <<calls, returned, sdkVars>>

\* -------------------------------------------------------- process_message

\* variant: leaving the with block does not mark the transaction
RaiseInTryNoStatus ==
    /\ pc' = "pm_except"
    /\ childState' = ExitWith(childState)
    /\ rootState' = ExitWith(rootState)
    /\ rootStatus' = rootStatus

\* An Exception raised inside the try of line 105: the with blocks that were
\* entered are left (child first, then the transaction, which the SDK marks
\* internal_error) and control reaches the except clause of line 157.
RaiseInTry ==
    /\ pc' = "pm_except"
    /\ childState' = ExitWith(childState)
    /\ rootState' = ExitWith(rootState)
    /\ rootStatus' = IF rootState = "open" THEN "internal_error" ELSE rootStatus

\* lines 59-78: message.get(...) and the test of sentry_trace
PmEntry ==
    /\ pc = "pm_entry"
    /\ IF ~message.isDict
       THEN \* AttributeError, outside the try of line 105
            /\ faulted' = faulted \cup {idx}
            /\ pc' = "handler"
       ELSE /\ pc' = IF HasTrace(message) THEN "parse" ELSE "untraced"
            /\ UNCHANGED faulted
    /\ UNCHANGED <<outcome, messages, idx, lastWait, spanVars, result, dispatched,
                   captured, interrupted, stoppedAt, pureVars>>
    /\ UNCHANGED <<logVars, sdkVars>>

\* lines 79-103
Parse ==
    /\ pc = "parse"
    /\ parsed' = ParseTrace(message.sentryTrace)
    /\ pc' = "continue_trace"
    /\ UNCHANGED <<outcome, messages, idx, lastWait, rootState, rootStatus, rootTags,
                   childState, flushAt, histVars, pureVars>>
    /\ UNCHANGED <<logVars, sdkVars>>

\* lines 108-109
ContinueTrace(ok) ==
    /\ pc = "continue_trace"
    /\ IF ok
       THEN pc' = "start_transaction" /\ UNCHANGED <<rootState, rootStatus, childState>>
       ELSE RaiseInTry
    /\ UNCHANGED <<outcome, messages, idx, lastWait, parsed, rootTags, flushAt,
                   histVars, pureVars>>
    /\ envelope' = IF ok THEN continue_trace(Headers(message)) ELSE envelope
    /\ UNCHANGED <<logVars, rootTrace, childTrace, flushed>>

\* line 113: the transaction object exists (started) once the call returns
StartTransaction(ok) ==
    /\ pc = "start_transaction"
    /\ IF ok
       THEN pc' = "with_enter" /\ rootState' = "started"
            /\ UNCHANGED <<rootStatus, childState>>
       ELSE RaiseInTry
    /\ UNCHANGED <<outcome, messages, idx, lastWait, parsed, rootTags, flushAt,
                   histVars, pureVars>>
    /\ rootTrace' = IF ok THEN StartedTrace(envelope) ELSE rootTrace
    /\ UNCHANGED <<logVars, envelope, childTrace, flushed>>

\* line 115
WithEnter ==
    /\ pc = "with_enter"
    /\ rootState' = "open"
    /\ pc' = "work"
    /\ UNCHANGED <<outcome, messages, idx, lastWait, parsed, rootStatus, rootTags,
                   childState, flushAt, histVars, pureVars>>
    /\ UNCHANGED <<logVars, sdkVars>>

\* lines 116-126
Work(ok) ==
    /\ pc = "work"
    /\ IF ok
       THEN pc' = "child_enter" /\ UNCHANGED <<rootState, rootStatus, childState>>
       ELSE RaiseInTry
    /\ UNCHANGED <<outcome, messages, idx, lastWait, parsed, rootTags, flushAt,
                   histVars, pureVars>>
    /\ UNCHANGED <<logVars, sdkVars>>

\* line 129
ChildEnter(ok) ==
    /\ pc = "child_enter"
    /\ IF ok
       THEN pc' = "child_body" /\ childState' = "open"
            /\ UNCHANGED <<rootState, rootStatus>>
       ELSE RaiseInTry
    /\ UNCHANGED <<outcome, messages, idx, lastWait, parsed, rootTags, flushAt,
                   histVars, pureVars>>
    /\ childTrace' = IF ok THEN rootTrace.trace_id ELSE childTrace
    /\ UNCHANGED <<logVars, envelope, rootTrace, flushed>>

\* variant: the child span is started without a with block and never finished
ChildBodyNoClose(ok) ==
    /\ pc = "child_body"
    /\ IF ok
       THEN pc' = "tagging" /\ UNCHANGED <<rootState, rootStatus, childState>>
       ELSE RaiseInTry
    /\ UNCHANGED <<outcome, messages, idx, lastWait, parsed, rootTags, flushAt,
                   histVars, pureVars>>
    /\ UNCHANGED <<logVars, sdkVars>>

\* lines 130-131
ChildBody(ok) ==
    /\ pc = "child_body"
    /\ IF ok
       THEN pc' = "tagging" /\ childState' = ExitWith(childState)
            /\ UNCHANGED <<rootState, rootStatus>>
       ELSE RaiseInTry
    /\ UNCHANGED <<outcome, messages, idx, lastWait, parsed, rootTags, flushAt,
                   histVars, pureVars>>
    /\ UNCHANGED <<logVars, sdkVars>>

\* variant: message.get('taskType') without the default
TagsNoDefault(m) ==
    [k \in {"task.type", "processed.by"} |->
        IF k = "processed.by" THEN "python-worker"
        ELSE IF m.taskType = Absent THEN "None" ELSE m.taskType]

\* lines 134-135
Tags(m) ==
    [k \in {"task.type", "processed.by"} |->
        IF k = "processed.by" THEN "python-worker"
        ELSE IF m.taskType = Absent THEN "unknown" ELSE m.taskType]

\* lines 133-143
Tagging(ok) ==
    /\ pc = "tagging"
    /\ IF ok
       THEN pc' = "flush" /\ rootTags' = Tags(message)
            /\ UNCHANGED <<rootState, rootStatus, childState>>
       ELSE \* raised by line 134 (no tag yet) or by line 135 (task.type set)
            /\ RaiseInTry
            /\ rootTags' \in {NoTags, [k \in {"task.type"} |-> Tags(message)[k]]}
    /\ UNCHANGED <<outcome, messages, idx, lastWait, parsed, flushAt,
                   histVars, pureVars>>
    /\ UNCHANGED <<logVars, sdkVars>>

\* lines 147-149: the flush is called inside the with block of line 115
Flush(ok) ==
    /\ pc = "flush"
    /\ flushAt' = rootState
    /\ IF ok
       THEN pc' = "return" /\ UNCHANGED <<rootState, rootStatus, childState>>
       ELSE RaiseInTry
    /\ UNCHANGED <<outcome, messages, idx, lastWait, parsed, rootTags,
                   histVars, pureVars>>
    /\ IF ok THEN flushed' \in {"flushed", "timed_out"} ELSE flushed' = "raised"
    /\ UNCHANGED <<logVars, envelope, rootTrace, childTrace>>

\* variant: the transaction is entered by hand and the return does not leave it
ReturnLeavesOpen ==
    /\ pc = "return"
    /\ rootState' = rootState
    /\ result' = [success |-> TRUE, processedBy |-> "python-worker",
                  warning |-> Absent, span |-> TRUE]
    /\ pc' = "print_result"
    /\ UNCHANGED <<outcome, messages, idx, lastWait, parsed, rootStatus, rootTags,
                   childState, flushAt, dispatched, faulted, captured, interrupted,
                   stoppedAt, pureVars>>
    /\ UNCHANGED <<logVars, sdkVars>>

\* lines 151-156: the return leaves the with block of line 115
Return ==
    /\ pc = "return"
    /\ rootState' = ExitWith(rootState)
    /\ result' = [success |-> TRUE, processedBy |-> "python-worker",
                  warning |-> Absent, span |-> TRUE]
    /\ pc' = "print_result"
    /\ UNCHANGED <<outcome, messages, idx, lastWait, parsed, rootStatus, rootTags,
                   childState, flushAt, dispatched, faulted, captured, interrupted,
                   stoppedAt, pureVars>>
    /\ UNCHANGED <<logVars, sdkVars>>

\* lines 157-161: the except clause prints and re-raises
PmExcept ==
    /\ pc = "pm_except"
    /\ faulted' = faulted \cup {idx}
    /\ pc' = "handler"
    /\ UNCHANGED <<outcome, messages, idx, lastWait, spanVars, result, dispatched,
                   captured, interrupted, stoppedAt, pureVars>>
    /\ UNCHANGED <<logVars, sdkVars>>

\* lines 162-171
Untraced ==
    /\ pc = "untraced"
    /\ result' = [success |-> TRUE, processedBy |-> "python-worker",
                  warning |-> "no_trace_context", span |-> FALSE]
    /\ pc' = "print_result"
    /\ UNCHANGED <<outcome, messages, idx, lastWait, spanVars, dispatched, faulted,
                   captured, interrupted, stoppedAt, pureVars>>
    /\ UNCHANGED <<logVars, sdkVars>>

\* --------------------------------------------------- main: per message

\* line 198
PrintResult ==
    /\ pc = "print_result"
    /\ pc' = "for_next"
    /\ UNCHANGED <<outcome, messages, idx, lastWait, spanVars, histVars, pureVars>>
    /\ returned' = returned \cup {idx}
    /\ UNCHANGED <<calls, pollsSinceWait, sdkVars>>

\* variant: the try of line 196 encloses the for loop, so a fault ends the batch
HandlerAbortsBatch ==
    /\ pc = "handler"
    /\ captured' = captured \cup {idx}
    /\ pc' = "sleep"
    /\ UNCHANGED <<outcome, messages, idx, lastWait, spanVars, result, dispatched,
                   faulted, interrupted, stoppedAt, pureVars>>
    /\ UNCHANGED <<logVars, sdkVars>>

\* variant: the fault is printed and not captured
HandlerNoCapture ==
    /\ pc = "handler"
    /\ pc' = "for_next"
    /\ UNCHANGED <<outcome, messages, idx, lastWait, spanVars, histVars, pureVars>>
    /\ UNCHANGED <<logVars, sdkVars>>

\* lines 199-201
Handler ==
    /\ pc = "handler"
    /\ captured' = captured \cup {idx}
    /\ pc' = "for_next"
    /\ UNCHANGED <<outcome, messages, idx, lastWait, spanVars, result, dispatched,
                   faulted, interrupted, stoppedAt, pureVars>>
    /\ UNCHANGED <<logVars, sdkVars>>

\* ------------------------------------------------------------- interrupt

Running == pc \in {"poll", "decode", "for_next", "sleep", "pm_entry", "parse",
                   "continue_trace", "start_transaction", "with_enter", "work",
                   "child_enter", "child_body", "tagging", "flush", "return",
                   "pm_except", "untraced", "print_result", "handler"}

\* variant: the clause of line 199 is `except BaseException`, so an interrupt
\* raised inside process_message is handled as a processing fault
InterruptCaughtAsFault ==
    /\ Running
    /\ interrupted' = TRUE
    /\ stoppedAt' = pc
    /\ pc' = IF pc \in {"pm_entry", "parse", "continue_trace", "start_transaction",
                        "with_enter", "work", "child_enter", "child_body", "tagging",
                        "flush", "return", "pm_except", "untraced"}
             THEN "handler" ELSE "stopped"
    /\ childState' = ExitWith(childState)
    /\ rootState' = ExitWith(rootState)
    /\ rootStatus' = IF rootState = "open" THEN "internal_error" ELSE rootStatus
    /\ UNCHANGED <<outcome, messages, idx, lastWait, parsed, rootTags, flushAt,
                   result, dispatched, faulted, captured, pureVars>>
    /\ UNCHANGED <<logVars, sdkVars>>

\* lines 181, 211-212: KeyboardInterrupt is raised at the current position.
\* It is no Exception, so the clauses of lines 157, 199 and 205 do not match;
\* the with blocks that were entered are left, and the clause of line 211
\* ends main.
Interrupt ==
    /\ Running
    /\ interrupted' = TRUE
    /\ stoppedAt' = pc
    /\ pc' = "stopped"
    /\ childState' = ExitWith(childState)
    /\ rootState' = ExitWith(rootState)
    /\ rootStatus' = IF rootState = "open" THEN "internal_error" ELSE rootStatus
    /\ UNCHANGED <<outcome, messages, idx, lastWait, parsed, rootTags, flushAt,
                   result, dispatched, faulted, captured, pureVars>>
    /\ UNCHANGED <<logVars, sdkVars>>

\* ------------------------------------------------------------------ Spec

Next ==
    \/ PollTransportFault
    \/ \E status \in {200, 500} : PollResponse(status)
    \/ Decode
    \/ ForNext
    \/ Sleep
    \/ PmEntry
    \/ Parse
    \/ \E ok \in BOOLEAN : ContinueTrace(ok)
    \/ \E ok \in BOOLEAN : StartTransaction(ok)
    \/ WithEnter
    \/ \E ok \in BOOLEAN : Work(ok)
    \/ \E ok \in BOOLEAN : ChildEnter(ok)
    \/ \E ok \in BOOLEAN : ChildBody(ok)
    \/ \E ok \in BOOLEAN : Tagging(ok)
    \/ \E ok \in BOOLEAN : Flush(ok)
    \/ Return
    \/ PmExcept
    \/ Untraced
    \/ PrintResult
    \/ Handler
    \/ Interrupt

Spec == Init /\ [][Next]_vars

\* ------------------------------------------- before_send on its own

InitBeforeSend ==
    /\ pc = "bs_call"
    /\ LoopStart
    /\ event \in Events
    /\ sent = <<>>
    /\ header = <<>>
    /\ ctx = NoCtx

\* line 51: the SDK hands every outgoing event to before_send
CallBeforeSend ==
    /\ pc = "bs_call"
    /\ sent' = before_send(event)
    /\ pc' = "bs_done"
    /\ UNCHANGED <<outcome, messages, idx, lastWait, spanVars, histVars,
                   event, header, ctx>>
    /\ UNCHANGED <<logVars, sdkVars>>

NextBeforeSend == CallBeforeSend

SpecBeforeSend == InitBeforeSend /\ [][NextBeforeSend]_vars

\* ------------------------------------------ trace parsing on its own

InitParse ==
    /\ pc = "tp_call"
    /\ LoopStart
    /\ event = <<>>
    /\ sent = <<>>
    /\ header \in Str(MaxTraceLen)
    /\ ctx = NoCtx

\* lines 78-98 on any str: the empty str is falsy and is not parsed
ParseHeader ==
    /\ pc = "tp_call"
    /\ IF header # <<>>
       THEN ctx' = ParseTrace(header) /\ pc' = "tp_done"
       ELSE ctx' = ctx /\ pc' = "tp_skipped"
    /\ UNCHANGED <<outcome, messages, idx, lastWait, spanVars, histVars,
                   event, sent, header>>
    /\ UNCHANGED <<logVars, sdkVars>>

NextParse == ParseHeader

SpecParse == InitParse /\ [][NextParse]_vars

\* ================================================================ claims

\* positions inside process_message
InProcessMessage ==
    {"pm_entry", "parse", "continue_trace", "start_transaction", "with_enter",
     "work", "child_enter", "child_body", "tagging", "flush", "return",
     "pm_except", "untraced"}

\* positions at which a message is in flight: inside process_message, or back
\* in the loop with its result not yet printed or its fault not yet captured
InFlight == InProcessMessage \cup {"print_result", "handler"}

\* a message was taken from the batch and it is a JSON object
CurrentIsDict == idx >= 1 /\ message.isDict

DashCount(t) == Cardinality({i \in 1..Len(t) : t[i] = "-"})

\* C1: a fault raised while processing a message is caught inside the loop:
\* when the loop reaches its wait after a polled batch, every message of the
\* batch, those after a faulted one included, has been passed to
\* process_message, and a processing fault never ends main.
C1_FaultIsolation ==
    /\ (pc = "sleep" /\ outcome = "ok") => dispatched = 1..Len(messages)
    /\ (pc = "poll" /\ outcome = "ok") => dispatched = 1..Len(messages)
    /\ faulted # {} => pc # "crashed"

C1_Witness ==
    /\ pc = "poll"
    /\ \E i \in faulted : i < Len(messages) /\ i + 1 \in dispatched

\* C2: main stops only when an interrupt has been delivered.
C2_OnlyInterruptStops == pc \in {"stopped", "crashed"} => interrupted

\* C3: before_send returns sampled exactly True for every trace-bearing event.
C3_SamplingOverride ==
    (pc = "bs_done"
        /\ (\/ ("type" \in DOMAIN event /\ event["type"] = "transaction")
            \/ "transaction" \in DOMAIN event
            \/ "spans" \in DOMAIN event))
    => ("sampled" \in DOMAIN sent /\ sent["sampled"] = "True")

C3_Witness ==
    /\ pc = "bs_done"
    /\ DOMAIN event = {"spans", "sampled"}
    /\ event["sampled"] = "False"
    /\ sent["sampled"] = "True"

\* C4: whenever control is back in the worker loop (a result was returned or
\* a fault reached the handler of line 199, and from then on until the next
\* message is dispatched) no root span and no child span is open.
C4_SpansClosed ==
    pc \in {"print_result", "handler", "for_next", "sleep", "poll", "decode"}
    => (rootState \in {"none", "closed"} /\ childState \in {"none", "closed"})

C4_Witness ==
    /\ pc = "handler"
    /\ rootState = "closed"
    /\ childState = "closed"
    /\ rootStatus = "internal_error"
    /\ flushAt = "open"

\* C5: a message whose sentryTrace is absent or empty raises no fault, opens
\* no span, never enters the traced branch, and returns success=true with the
\* warning no_trace_context.
C5_Untraced ==
    (CurrentIsDict /\ message.sentryTrace \in {None, <<>>})
    => /\ idx \notin faulted
       /\ rootState = "none"
       /\ childState = "none"
       /\ pc \notin {"parse", "continue_trace", "pm_except", "handler"}
       /\ pc = "print_result" =>
             (result.success /\ result.warning = "no_trace_context")

C5_Witness ==
    /\ pc = "print_result"
    /\ message.sentryTrace = <<>>
    /\ result.warning = "no_trace_context"

\* C6: for every non-empty sentryTrace string, trace_id is the text before the
\* first '-', parent_span_id the text between the first and second '-' (None
\* when there is no '-'), and trace_sampled is true exactly when a third
\* segment exists and is '1'.
C6_TraceParsing ==
    pc = "tp_done" =>
        LET n == DashCount(header)
            dash(k) == CHOOSE i \in 1..Len(header) :
                          header[i] = "-" /\ DashCount(SubSeq(header, 1, i)) = k
            end(k) == IF n >= k THEN dash(k) - 1 ELSE Len(header)
        IN /\ ctx.trace_id = SubSeq(header, 1, end(1))
           /\ ctx.parent_span_id =
                 IF n = 0 THEN None ELSE SubSeq(header, dash(1) + 1, end(2))
           /\ ctx.trace_sampled =
                 (n >= 2 /\ SubSeq(header, dash(2) + 1, end(3)) = <<"1">>)

C6_Witness ==
    /\ pc = "tp_done"
    /\ header = <<"T", "-", "P", "-", "1">>
    /\ ctx = [trace_id |-> <<"T">>, parent_span_id |-> <<"P">>, trace_sampled |-> TRUE]

\* C7 as stated: after a failed poll the wait before the next poll is longer
\* than the idle interval.
C7_LongerWaitAfterFailure ==
    (pc = "poll" /\ outcome \in {"transport_fault", "non200"})
    => lastWait > PollInterval

\* C7 amended: after a failed poll nothing is raised and the wait before the
\* next poll is the same fixed interval as after any other iteration.
C7_SameWaitAfterFailure ==
    /\ (pc = "poll" /\ outcome \in {"transport_fault", "non200"})
       => lastWait = PollInterval
    /\ outcome \in {"transport_fault", "non200"}
       => (pc \in {"sleep", "poll", "stopped"} /\ faulted = {})

C7_Witness ==
    /\ pc = "poll"
    /\ outcome = "non200"
    /\ lastWait = PollInterval

\* C8: every fault raised while processing a message has been passed to
\* capture_exception once control leaves the handler, hence before the next
\* poll, and a processing fault never ends main.
C8_FaultCaptured ==
    /\ pc \notin {"handler", "stopped"} => faulted \subseteq captured
    /\ pc = "handler" => faulted \ {idx} \subseteq captured
    /\ faulted # {} => pc # "crashed"

C8_Witness ==
    /\ pc = "poll"
    /\ Cardinality(faulted) = 2
    /\ captured = faulted

\* C9 as stated: a message whose sentryTrace is non-empty with fewer than 3
\* segments is processed untraced and its result carries no_trace_context.
C9_MalformedDegrades ==
    (CurrentIsDict /\ message.sentryTrace \notin {None, <<>>}
        /\ DashCount(message.sentryTrace) < 2)
    => /\ rootState = "none"
       /\ pc = "print_result" => result.warning = "no_trace_context"

\* C9 amended: such a message raises no fault in parsing (the missing
\* segments resolve to None / false) but takes the traced branch like a
\* well-formed one: a returned result carries span info and no warning.
C9_MalformedIsTraced ==
    (CurrentIsDict /\ message.sentryTrace \notin {None, <<>>}
        /\ DashCount(message.sentryTrace) < 2)
    => /\ pc # "untraced"
       /\ pc = "continue_trace" =>
             (idx \notin faulted /\ ~parsed.trace_sampled
                 /\ parsed.trace_id # None
                 /\ (DashCount(message.sentryTrace) = 0 => parsed.parent_span_id = None))
       /\ pc = "print_result" =>
             (result.success /\ result.span /\ result.warning = Absent
                 /\ rootState = "closed")

C9_Witness ==
    /\ pc = "print_result"
    /\ message.sentryTrace = <<"T">>
    /\ result.span
    /\ rootState = "closed"

\* C10 as stated: an interrupt never stops the loop while a message is in
\* flight.
C10_NoCancelInFlight == pc = "stopped" => stoppedAt \notin InFlight

\* C10 amended: an interrupt stops the loop at the position where it is
\* delivered, also in the middle of a message; that message is abandoned (no
\* result returned, no exception captured for it, a pending flush not run) and
\* the spans entered by a with block are closed on the way out.
C10_InterruptAbandons ==
    interrupted =>
        /\ pc = "stopped"
        /\ rootState # "open"
        /\ childState # "open"
        /\ stoppedAt \in InProcessMessage => (result = NoResult /\ idx \notin captured)
        /\ stoppedAt = "handler" => idx \notin captured
        /\ stoppedAt \in {"flush", "tagging", "child_body"} => flushAt = "none"

C10_Witness ==
    /\ pc = "stopped"
    /\ stoppedAt = "child_body"
    /\ rootState = "closed"
    /\ childState = "closed"
    /\ idx < Len(messages)

\* the k-th '-'-separated segment of t, by the positions of its dashes
DashAt(t, k) ==
    CHOOSE i \in 1..Len(t) : t[i] = "-" /\ DashCount(SubSeq(t, 1, i)) = k

Segment(t, k) ==
    SubSeq(t,
           IF k = 1 THEN 1 ELSE DashAt(t, k - 1) + 1,
           IF DashCount(t) >= k THEN DashAt(t, k) - 1 ELSE Len(t))

\* the message taken from the batch has finished on the normal path
FinishedNormally == pc = "print_result" \/ (idx \in returned /\ pc # "stopped")

ExpectedTags ==
    /\ DOMAIN rootTags = {"task.type", "processed.by"}
    /\ rootTags["processed.by"] = "python-worker"
    /\ rootTags["task.type"] =
          IF message.taskType = Absent THEN "unknown" ELSE message.taskType

\* C11: the messages passed to process_message in an iteration are exactly
\* the messages of the latest poll response, each once and in the order
\* received: a prefix of the batch while it is being worked through, the
\* whole batch when the loop reaches its wait, and nothing when the poll
\* returned no batch.
C11_ExactlyOnce ==
    /\ Len(calls) <= Len(messages)
    /\ \A i \in 1..Len(calls) : calls[i] = messages[i]
    /\ pc \in {"sleep", "poll"} => calls = messages
    /\ outcome # "ok" => calls = <<>>

C11_Witness ==
    /\ pc = "sleep"
    /\ Len(calls) = 2
    /\ calls = messages
    /\ calls[1] # calls[2]

\* C12: the flush is attempted only once the root span and its child are
\* closed, and it is attempted for every message whose root span was opened,
\* on the success path and on the fault path alike.
C12_FlushAfterClose ==
    /\ flushAt \in {"none", "closed"}
    /\ (pc \in {"print_result", "handler"} /\ rootState = "closed") => flushAt # "none"

\* C13: once the work has completed and the flush was attempted, a flush that
\* fails (returns a failure value, or raises) leaves the success result of the
\* work: no fault reaches the loop.
C13_FlushFailureNotMasking ==
    (flushed \in {"timed_out", "raised"} /\ pc \in {"print_result", "handler", "for_next"})
    => (result.success /\ idx \notin faulted)

\* C14 as stated: every closed root span carries task.type and processed.by.
C14_TagsOnEveryClosedRoot == (rootState = "closed" /\ idx >= 1) => ExpectedTags

\* C14 amended: a root span closed after tagging completed (normal return, or
\* a fault raised afterwards by the flush) carries both tags; a root span
\* closed by a fault raised before tagging completed does not carry
\* processed.by.
C14_TagsAfterTagging ==
    /\ (rootState = "closed" /\ FinishedNormally) => ExpectedTags
    /\ (rootState = "closed" /\ flushed = "raised" /\ idx >= 1) => ExpectedTags
    /\ (rootState = "closed" /\ flushAt = "none" /\ ~interrupted)
          => "processed.by" \notin DOMAIN rootTags

C14_Witness ==
    /\ pc = "print_result"
    /\ rootState = "closed"
    /\ message.taskType = Absent
    /\ rootTags["task.type"] = "unknown"
    /\ rootTags["processed.by"] = "python-worker"

\* C15 as stated: a root span closed after normal completion has status ok,
\* one closed by a fault has an error status, and none closes unset.
C15_StatusOkOrError ==
    /\ (rootState = "closed" /\ FinishedNormally) => rootStatus = "ok"
    /\ (rootState = "closed" /\ pc \in {"pm_except", "handler"})
          => rootStatus \in {"error", "internal_error"}
    /\ rootState = "closed" => rootStatus # "unset"

\* C15 amended: process_message never sets a status, so a root span closed
\* after normal completion has its status unset; a root span closed by a fault
\* has been marked internal_error by leaving the with block, before the fault
\* leaves process_message.
C15_StatusUnsetOrInternalError ==
    /\ (rootState = "closed" /\ FinishedNormally) => rootStatus = "unset"
    /\ (rootState = "closed" /\ pc \in {"pm_except", "handler"})
          => rootStatus = "internal_error"
    /\ rootStatus \in {"unset", "internal_error"}

C15_Witness ==
    /\ pc = "pm_except"
    /\ rootState = "closed"
    /\ rootStatus = "internal_error"
    /\ flushAt = "none"

\* C16: for a message whose sentryTrace has three segments T-P-s, the root
\* span has trace id T and parent span id P, and the child span has the trace
\* id of its root.
C16_TraceContinuity ==
    (CurrentIsDict /\ message.sentryTrace \notin {None, <<>>}
        /\ DashCount(message.sentryTrace) = 2)
    => /\ rootState # "none" =>
             /\ rootTrace.trace_id = Segment(message.sentryTrace, 1)
             /\ rootTrace.parent_span_id = Segment(message.sentryTrace, 2)
       /\ childState # "none" => childTrace = rootTrace.trace_id
       /\ childState # "none" => childTrace = Segment(message.sentryTrace, 1)

C16_Witness ==
    /\ pc = "child_body"
    /\ message.sentryTrace = <<"T", "-", "P", "-", "1">>
    /\ rootTrace = [trace_id |-> <<"T">>, parent_span_id |-> <<"P">>]
    /\ childTrace = <<"T">>

\* C17: at most one message is in processing at any time, and when the loop
\* polls, decodes, takes the next message or waits, every message dispatched
\* so far has finished (its result printed or its fault captured) and no span
\* is open.
C17_Sequential ==
    /\ Cardinality(dispatched \ (returned \cup captured)) <= 1
    /\ pc \in {"poll", "decode", "sleep", "for_next"} =>
          /\ dispatched = returned \cup captured
          /\ rootState \in {"none", "closed"}
          /\ childState \in {"none", "closed"}
    /\ pc \in InFlight => dispatched \ (returned \cup captured) = {idx}

C17_Witness ==
    /\ pc = "flush"
    /\ idx = 2
    /\ dispatched = {1, 2}
    /\ returned \cup captured = {1}

\* C18: at most one poll request is issued between two waits, a wait precedes
\* every poll but the first, and the wait is the fixed idle interval, also
\* after a successful poll that returned no messages.
C18_NoBusyLoop ==
    /\ pollsSinceWait <= 1
    /\ pc = "poll" => pollsSinceWait = 0
    /\ pc \in {"decode", "for_next", "sleep"} \cup InFlight => pollsSinceWait = 1
    /\ (pc = "poll" /\ outcome # "none") => lastWait = PollInterval

C18_Witness ==
    /\ pc = "poll"
    /\ outcome = "ok"
    /\ messages = <<>>
    /\ lastWait = PollInterval
    /\ pollsSinceWait = 0

\* C19: before_send changes no key other than sampled; an event that is not
\* trace-bearing, or that is trace-bearing with sampled already True, is
\* returned as it was; a second application changes nothing.
C19_Frame ==
    pc = "bs_done" =>
        /\ DOMAIN sent \ {"sampled"} = DOMAIN event \ {"sampled"}
        /\ \A k \in DOMAIN event \ {"sampled"} : sent[k] = event[k]
        /\ ~(\/ ("type" \in DOMAIN event /\ event["type"] = "transaction")
             \/ "transaction" \in DOMAIN event
             \/ "spans" \in DOMAIN event) => sent = event
        /\ ("sampled" \in DOMAIN event /\ event["sampled"] = "True") => sent = event
        /\ before_send(sent) = sent

C19_Witness ==
    /\ pc = "bs_done"
    /\ DOMAIN event = {"type", "message", "sampled"}
    /\ event["type"] = "error"
    /\ event["sampled"] = "False"
    /\ sent = event

\* C20: the child span is open only while the root span of the same message
\* is open, and it is closed whenever the root span is closed.
C20_Nesting ==
    /\ childState = "open" => rootState = "open"
    /\ rootState \in {"none", "started"} => childState = "none"
    /\ rootState = "closed" => childState \in {"none", "closed"}
    /\ childState = "open" <=> pc = "child_body"

C20_Witness ==
    /\ pc = "pm_except"
    /\ rootState = "closed"
    /\ childState = "closed"
    /\ rootTags = NoTags
    /\ flushAt = "none"

====
